---------------------------- MODULE Spec2Model ----------------------------
(***************************************************************************)
(* The book-review service of final_project: index.js (session and token   *)
(* middleware, the /register/:username/:password route), router/general.js *)
(* (POST /register) and router/auth_users.js (login, PUT and DELETE of a   *)
(* review).                                                                *)
(*                                                                         *)
(* Node runs one handler at a time and none of the handlers modelled here  *)
(* awaits: jsonwebtoken calls the verify callback synchronously when the   *)
(* secret is a string, so middleware plus route handler are one step.      *)
(*                                                                         *)
(* The clock `now` is the clock jsonwebtoken reads, in whole seconds       *)
(* (iat, exp and the expiry comparison are NumericDate seconds).           *)
(***************************************************************************)
EXTENDS Integers, Sequences, FiniteSets, TLC

VARIABLES users, books, session, now, steps, envSecret, registered, reviewLog,
          loggedIn, last

\* registered, reviewLog and loggedIn are history variables: the pairs POST
\* /register accepted, per book and username the last review request that
\* succeeded, and the pairs POST /customer/login accepted.
vars == <<users, books, session, now, steps, envSecret, registered, reviewLog,
          loggedIn, last>>

(***************************************************************************)
(* Bounds of the model and the inputs requests are drawn from.             *)
(***************************************************************************)
\* The number of requests and clock advances of a run.
MaxSteps == 5

MaxUsers == 3

Usernames == {"alice", "bob"}

Passwords == {"pw1", "pw2"}

\* "" stands for a field that is absent or empty: both are falsy in
\* `username && password` and `!username || !password`.
UserInputs == Usernames \cup {""}

PassInputs == Passwords \cup {""}

Sessions == {"s1", "s2"}

\* "99" is no key of the catalog.
IsbnInputs == {"1", "2", "99"}

\* req.body.review when the body has no review field.
Undefined == "<undefined>"

ReviewInputs == {Undefined, "", "a", "b"}

\* process.env.ACCESS_TOKEN_SECRET: "" stands for unset (or set to the empty
\* string, which `||` treats alike).
EnvSecrets == {"", "s3cret"}

Truthy(v) == v \notin {"", Undefined}

(***************************************************************************)
(* The catalog seeded by router/booksdb.js: keys to {author, title,        *)
(* reviews}, the reviews of each book being a mapping from username to     *)
(* review, held here as the set of its entries.                            *)
(***************************************************************************)
SeedBooks ==
    [i \in {"1", "2"} |->
        IF i = "1"
        THEN [author |-> "Chinua Achebe", title |-> "Things Fall Apart", reviews |-> {}]
        ELSE [author |-> "Jane Austen", title |-> "Pride and Prejudice", reviews |-> {}]]

\* books[isbn] is truthy
HasBook(isbn) == isbn \in DOMAIN books

\* book.reviews[username], Undefined when the key is absent
ReviewOf(isbn, username) ==
    IF \E e \in books[isbn].reviews : e.username = username
    THEN (CHOOSE e \in books[isbn].reviews : e.username = username).review
    ELSE Undefined

\* Mutant of SetReview: the entry is added beside the one the key has.
SetReviewAppends(reviews, username, review) ==
    reviews \cup {[username |-> username, review |-> review]}

\* book.reviews[username] = review: the entry of that key is replaced
SetReview(reviews, username, review) ==
    {e \in reviews : e.username # username}
        \cup {[username |-> username, review |-> review]}

\* Mutant of RemoveReview: the whole reviews object is emptied.
RemoveReviewAll(reviews, username) == {}

\* delete book.reviews[username]
RemoveReview(reviews, username) == {e \in reviews : e.username # username}

(***************************************************************************)
(* jsonwebtoken: a token is its payload and the key that signed it.        *)
(***************************************************************************)
ExpiresIn == 60 * 60

\* process.env.ACCESS_TOKEN_SECRET || 'access'
SignSecret == IF envSecret = "" THEN "access" ELSE envSecret

VerifySecret == "access"

\* Mutant of JwtSign: the token expires the second it is issued.
JwtSignNoLifetime(username, secret) ==
    [username |-> username, iat |-> now, exp |-> now, key |-> secret]

\* Mutant of JwtSign: the payload carries no username.
JwtSignNoSubject(username, secret) ==
    [username |-> "", iat |-> now, exp |-> now + ExpiresIn, key |-> secret]

\* jwt.sign({ username }, secret, { expiresIn: 60 * 60 })
JwtSign(username, secret) ==
    [username |-> username, iat |-> now, exp |-> now + ExpiresIn, key |-> secret]

\* Mutant of JwtVerify: the expiry is not looked at.
JwtVerifyIgnoresExpiry(token, secret) == token.key = secret

\* jwt.verify(token, secret, cb): err is null
JwtVerify(token, secret) == token.key = secret /\ now < token.exp

(***************************************************************************)
(* The last request and its response.                                      *)
(***************************************************************************)
\* One more request or clock advance, within the bound of the run.
Step == steps < MaxSteps /\ steps' = steps + 1

NoReq ==
    [op |-> "none", status |-> 0, msg |-> "", sess |-> "", user |-> "",
     pass |-> "", isbn |-> "", review |-> "", bodyUser |-> "", actor |-> "",
     ran |-> FALSE, had |-> FALSE, old |-> "", query |-> "", remote |-> "",
     catalog |-> {}, bookList |-> <<>>, reviewList |-> {}]

\* reviewLog once the request op of username on book isbn has succeeded.
Logged(isbn, username, op, text) ==
    {l \in reviewLog : ~(l.isbn = isbn /\ l.username = username)}
        \cup {[isbn |-> isbn, username |-> username, op |-> op, text |-> text]}

Init ==
    /\ users = <<>>
    /\ books = SeedBooks
    /\ session = [s \in Sessions |-> <<>>]
    /\ now = 0
    /\ steps = 0
    /\ envSecret \in EnvSecrets
    /\ registered = {}
    /\ reviewLog = {}
    /\ loggedIn = {}
    /\ last = NoReq

(***************************************************************************)
(* router/auth_users.js: the user directory.                               *)
(***************************************************************************)
\* Mutant of isValid: the length test is off by one.
isValidOffByOne(username) ==
    Cardinality({i \in 1..Len(users) : users[i].username = username}) > 1

isValid(username) ==
    \E i \in 1..Len(users) : users[i].username = username

\* Mutant of authenticatedUser: the password is not compared.
authenticatedUserAnyPassword(username, password) ==
    \E i \in 1..Len(users) : users[i].username = username

\* Mutant of authenticatedUser: any credentials are accepted.
authenticatedUserAlways(username, password) == TRUE

authenticatedUser(username, password) ==
    \E i \in 1..Len(users) :
        users[i].username = username /\ users[i].password = password


\* Mutant of Register: the account is pushed although the username exists.
RegisterPushesDuplicate(username, password) ==
    /\ Step
    /\ IF Truthy(username) /\ Truthy(password)
       THEN /\ Len(users) < MaxUsers
            /\ users' = Append(users, [username |-> username, password |-> password])
            /\ registered' = IF isValid(username) THEN registered
                             ELSE registered \cup {<<username, password>>}
            /\ last' = [NoReq EXCEPT !.op = "register",
                           !.status = IF isValid(username) THEN 400 ELSE 200,
                           !.msg = IF isValid(username) THEN "User already exists!"
                                   ELSE "User successfully registered",
                           !.user = username, !.pass = password]
       ELSE /\ UNCHANGED <<users, registered>>
            /\ last' = [NoReq EXCEPT !.op = "register", !.status = 400,
                           !.msg = "Unable to register user.",
                           !.user = username, !.pass = password]
    /\ UNCHANGED <<books, session, now, envSecret, reviewLog, loggedIn>>

\* Mutant of Register: a registration for an existing username, though
\* refused, replaces the account's password.
RegisterOverwrites(username, password) ==
    /\ Step
    /\ IF Truthy(username) /\ Truthy(password)
       THEN IF ~isValid(username)
            THEN /\ Len(users) < MaxUsers
                 /\ users' = Append(users, [username |-> username, password |-> password])
                 /\ registered' = registered \cup {<<username, password>>}
                 /\ last' = [NoReq EXCEPT !.op = "register", !.status = 200,
                                !.msg = "User successfully registered",
                                !.user = username, !.pass = password]
            ELSE /\ users' = [i \in 1..Len(users) |->
                                 IF users[i].username = username
                                 THEN [users[i] EXCEPT !.password = password]
                                 ELSE users[i]]
                 /\ UNCHANGED registered
                 /\ last' = [NoReq EXCEPT !.op = "register", !.status = 400,
                                !.msg = "User already exists!",
                                !.user = username, !.pass = password]
       ELSE /\ UNCHANGED <<users, registered>>
            /\ last' = [NoReq EXCEPT !.op = "register", !.status = 400,
                           !.msg = "Unable to register user.",
                           !.user = username, !.pass = password]
    /\ UNCHANGED <<books, session, now, envSecret, reviewLog, loggedIn>>

\* Mutant of Register: the username is checked against the directory as it
\* was before the latest push, as if the check had run ahead of the write of
\* a concurrent request.
RegisterStaleCheck(username, password) ==
    LET stale == IF Len(users) > 0 THEN SubSeq(users, 1, Len(users) - 1)
                 ELSE users
        taken == \E i \in 1..Len(stale) : stale[i].username = username
    IN
    /\ Step
    /\ IF Truthy(username) /\ Truthy(password)
       THEN IF ~taken
            THEN /\ Len(users) < MaxUsers
                 /\ users' = Append(users, [username |-> username, password |-> password])
                 /\ registered' = registered \cup {<<username, password>>}
                 /\ last' = [NoReq EXCEPT !.op = "register", !.status = 200,
                                !.msg = "User successfully registered",
                                !.user = username, !.pass = password]
            ELSE /\ UNCHANGED <<users, registered>>
                 /\ last' = [NoReq EXCEPT !.op = "register", !.status = 400,
                                !.msg = "User already exists!",
                                !.user = username, !.pass = password]
       ELSE /\ UNCHANGED <<users, registered>>
            /\ last' = [NoReq EXCEPT !.op = "register", !.status = 400,
                           !.msg = "Unable to register user.",
                           !.user = username, !.pass = password]
    /\ UNCHANGED <<books, session, now, envSecret, reviewLog, loggedIn>>

(***************************************************************************)
(* router/general.js: POST /register.                                      *)
(***************************************************************************)
Register(username, password) ==
    /\ Step
    /\ IF Truthy(username) /\ Truthy(password)
       THEN IF ~isValid(username)
            THEN /\ Len(users) < MaxUsers
                 /\ users' = Append(users, [username |-> username, password |-> password])
                 /\ registered' = registered \cup {<<username, password>>}
                 /\ last' = [NoReq EXCEPT !.op = "register", !.status = 200,
                                !.msg = "User successfully registered",
                                !.user = username, !.pass = password]
            ELSE /\ UNCHANGED <<users, registered>>
                 /\ last' = [NoReq EXCEPT !.op = "register", !.status = 400,
                                !.msg = "User already exists!",
                                !.user = username, !.pass = password]
       ELSE /\ UNCHANGED <<users, registered>>
            /\ last' = [NoReq EXCEPT !.op = "register", !.status = 400,
                           !.msg = "Unable to register user.",
                           !.user = username, !.pass = password]
    /\ UNCHANGED <<books, session, now, envSecret, reviewLog, loggedIn>>

(***************************************************************************)
(* index.js: POST /register/:username/:password.  The handler reads the    *)
(* body, not the URL parameters.  index.js binds neither authenticatedUser *)
(* nor users (it requires only the router objects, lines 1-5), so once     *)
(* both fields are truthy the call on line 42 throws a ReferenceError,     *)
(* which Express answers with 500; the push on line 44 is never reached.   *)
(***************************************************************************)
RegisterIndex(username, password) ==
    /\ Step
    /\ IF Truthy(username) /\ Truthy(password)
       THEN last' = [NoReq EXCEPT !.op = "registerIndex", !.status = 500,
                        !.msg = "ReferenceError",
                        !.user = username, !.pass = password]
       ELSE last' = [NoReq EXCEPT !.op = "registerIndex", !.status = 404,
                        !.msg = "Unable to register user.",
                        !.user = username, !.pass = password]
    /\ UNCHANGED <<users, registered, reviewLog, loggedIn, books, session, now, envSecret>>

\* Mutant of Login: a failed attempt drops the session's authorization.
LoginClearsOnFailure(s, username, password) ==
    /\ Step
    /\ IF ~Truthy(username) \/ ~Truthy(password)
       THEN /\ UNCHANGED <<session, loggedIn>>
            /\ last' = [NoReq EXCEPT !.op = "login", !.status = 400,
                           !.msg = "Username and password are required",
                           !.sess = s, !.user = username, !.pass = password]
       ELSE IF authenticatedUser(username, password)
            THEN /\ session' = [session EXCEPT ![s] =
                        <<[accessToken |-> JwtSign(username, SignSecret),
                           username |-> username]>>]
                 /\ loggedIn' = loggedIn \cup {<<username, password>>}
                 /\ last' = [NoReq EXCEPT !.op = "login", !.status = 200,
                                !.msg = "User successfully logged in",
                                !.sess = s, !.user = username, !.pass = password]
            ELSE /\ session' = [session EXCEPT ![s] = <<>>]
                 /\ UNCHANGED loggedIn
                 /\ last' = [NoReq EXCEPT !.op = "login", !.status = 401,
                                !.msg = "Invalid Login. Check username and password",
                                !.sess = s, !.user = username, !.pass = password]
    /\ UNCHANGED <<users, registered, reviewLog, books, now, envSecret>>

\* Mutant of Login: the authorization is written to every session.
LoginAllSessions(s, username, password) ==
    /\ Step
    /\ IF ~Truthy(username) \/ ~Truthy(password)
       THEN /\ UNCHANGED <<session, loggedIn>>
            /\ last' = [NoReq EXCEPT !.op = "login", !.status = 400,
                           !.msg = "Username and password are required",
                           !.sess = s, !.user = username, !.pass = password]
       ELSE IF authenticatedUser(username, password)
            THEN /\ session' = [k \in DOMAIN session |->
                        <<[accessToken |-> JwtSign(username, SignSecret),
                           username |-> username]>>]
                 /\ loggedIn' = loggedIn \cup {<<username, password>>}
                 /\ last' = [NoReq EXCEPT !.op = "login", !.status = 200,
                                !.msg = "User successfully logged in",
                                !.sess = s, !.user = username, !.pass = password,
                                !.had = session[s] # <<>>,
                                !.old = IF session[s] # <<>>
                                        THEN session[s][1].username ELSE ""]
            ELSE /\ UNCHANGED <<session, loggedIn>>
                 /\ last' = [NoReq EXCEPT !.op = "login", !.status = 401,
                                !.msg = "Invalid Login. Check username and password",
                                !.sess = s, !.user = username, !.pass = password]
    /\ UNCHANGED <<users, registered, reviewLog, books, now, envSecret>>

\* Mutant of Login: an authorization the session holds is kept.
LoginKeepsExisting(s, username, password) ==
    /\ Step
    /\ IF ~Truthy(username) \/ ~Truthy(password)
       THEN /\ UNCHANGED <<session, loggedIn>>
            /\ last' = [NoReq EXCEPT !.op = "login", !.status = 400,
                           !.msg = "Username and password are required",
                           !.sess = s, !.user = username, !.pass = password]
       ELSE IF authenticatedUser(username, password)
            THEN /\ session' = [session EXCEPT ![s] =
                        IF @ # <<>> THEN @
                        ELSE <<[accessToken |-> JwtSign(username, SignSecret),
                                username |-> username]>>]
                 /\ loggedIn' = loggedIn \cup {<<username, password>>}
                 /\ last' = [NoReq EXCEPT !.op = "login", !.status = 200,
                                !.msg = "User successfully logged in",
                                !.sess = s, !.user = username, !.pass = password,
                                !.had = session[s] # <<>>,
                                !.old = IF session[s] # <<>>
                                        THEN session[s][1].username ELSE ""]
            ELSE /\ UNCHANGED <<session, loggedIn>>
                 /\ last' = [NoReq EXCEPT !.op = "login", !.status = 401,
                                !.msg = "Invalid Login. Check username and password",
                                !.sess = s, !.user = username, !.pass = password]
    /\ UNCHANGED <<users, registered, reviewLog, books, now, envSecret>>

(***************************************************************************)
(* router/auth_users.js: POST /customer/login on the session s.            *)
(***************************************************************************)
Login(s, username, password) ==
    /\ Step
    /\ IF ~Truthy(username) \/ ~Truthy(password)
       THEN /\ UNCHANGED <<session, loggedIn>>
            /\ last' = [NoReq EXCEPT !.op = "login", !.status = 400,
                           !.msg = "Username and password are required",
                           !.sess = s, !.user = username, !.pass = password]
       ELSE IF authenticatedUser(username, password)
            THEN /\ session' = [session EXCEPT ![s] =
                        <<[accessToken |-> JwtSign(username, SignSecret),
                           username |-> username]>>]
                 /\ loggedIn' = loggedIn \cup {<<username, password>>}
                 /\ last' = [NoReq EXCEPT !.op = "login", !.status = 200,
                                !.msg = "User successfully logged in",
                                !.sess = s, !.user = username, !.pass = password,
                                !.had = session[s] # <<>>,
                                !.old = IF session[s] # <<>>
                                        THEN session[s][1].username ELSE ""]
            ELSE /\ UNCHANGED <<session, loggedIn>>
                 /\ last' = [NoReq EXCEPT !.op = "login", !.status = 401,
                                !.msg = "Invalid Login. Check username and password",
                                !.sess = s, !.user = username, !.pass = password]
    /\ UNCHANGED <<users, registered, reviewLog, books, now, envSecret>>

\* Mutant of auth: next() is called whatever jwt.verify reports.
authSkipsVerify(s) ==
    IF session[s] # <<>>
    THEN [next |-> TRUE, status |-> 0, msg |-> ""]
    ELSE [next |-> FALSE, status |-> 403, msg |-> "User not logged in"]

(***************************************************************************)
(* index.js: the middleware on /customer/auth/*.  "next" when the route    *)
(* handler is called, otherwise the response it sends.                     *)
(***************************************************************************)
auth(s) ==
    IF session[s] # <<>>
    THEN IF JwtVerify(session[s][1].accessToken, VerifySecret)
         THEN [next |-> TRUE, status |-> 0, msg |-> ""]
         ELSE [next |-> FALSE, status |-> 403, msg |-> "User not authenticated"]
    ELSE [next |-> FALSE, status |-> 403, msg |-> "User not logged in"]

\* Mutant of ReviewUsername: a username in the body is preferred.
ReviewUsernameFromBody(s, bodyUser) ==
    IF Truthy(bodyUser) THEN bodyUser ELSE session[s][1].username

\* Mutant of ReviewUsername: the handlers find no username.
ReviewUsernameBlank(s, bodyUser) == ""

\* req.session.authorization.username, as both review handlers read it;
\* bodyUser is a username field the client may put in the request body.
ReviewUsername(s, bodyUser) == session[s][1].username

\* Mutant of PutReview: a review for an id that is no book creates the book.
PutReviewCreatesBook(s, isbn, review, bodyUser) ==
    LET a == auth(s)
        req == [NoReq EXCEPT !.op = "put", !.sess = s, !.isbn = isbn,
                   !.review = review, !.bodyUser = bodyUser]
    IN
    /\ Step
    /\ IF ~a.next
       THEN /\ UNCHANGED <<books, reviewLog>>
            /\ last' = [req EXCEPT !.status = a.status, !.msg = a.msg]
       ELSE LET username == ReviewUsername(s, bodyUser) IN
            IF HasBook(isbn)
            THEN /\ books' = [books EXCEPT ![isbn].reviews =
                                 SetReview(@, username, review)]
                 /\ reviewLog' = Logged(isbn, username, "put", review)
                 /\ last' = [req EXCEPT !.status = 200, !.msg = "Review added",
                                !.actor = username, !.ran = TRUE,
                                !.had = \E e \in books[isbn].reviews :
                                            e.username = username,
                                !.old = ReviewOf(isbn, username)]
            ELSE /\ books' = [i \in DOMAIN books \cup {isbn} |->
                                 IF i \in DOMAIN books THEN books[i]
                                 ELSE [author |-> "", title |-> "",
                                       reviews |-> SetReview({}, username, review)]]
                 /\ reviewLog' = Logged(isbn, username, "put", review)
                 /\ last' = [req EXCEPT !.status = 200, !.msg = "Review added",
                                !.actor = username, !.ran = TRUE]
    /\ UNCHANGED <<users, registered, loggedIn, session, now, envSecret>>

(***************************************************************************)
(* router/auth_users.js: PUT /customer/auth/review/:isbn.  Express binds   *)
(* :isbn to a non-empty path segment, so the 400 branch is not reachable.  *)
(***************************************************************************)
PutReview(s, isbn, review, bodyUser) ==
    LET a == auth(s)
        req == [NoReq EXCEPT !.op = "put", !.sess = s, !.isbn = isbn,
                   !.review = review, !.bodyUser = bodyUser]
    IN
    /\ Step
    /\ IF ~a.next
       THEN /\ UNCHANGED <<books, reviewLog>>
            /\ last' = [req EXCEPT !.status = a.status, !.msg = a.msg]
       ELSE LET username == ReviewUsername(s, bodyUser) IN
            IF HasBook(isbn)
            THEN /\ books' = [books EXCEPT ![isbn].reviews =
                                 SetReview(@, username, review)]
                 /\ reviewLog' = Logged(isbn, username, "put", review)
                 /\ last' = [req EXCEPT !.status = 200, !.msg = "Review added",
                                !.actor = username, !.ran = TRUE,
                                !.had = \E e \in books[isbn].reviews :
                                            e.username = username,
                                !.old = ReviewOf(isbn, username)]
            ELSE /\ UNCHANGED <<books, reviewLog>>
                 /\ last' = [req EXCEPT !.status = 200, !.msg = "Book not found",
                                !.actor = username, !.ran = TRUE]
    /\ UNCHANGED <<users, registered, loggedIn, session, now, envSecret>>

(***************************************************************************)
(* router/auth_users.js: DELETE /customer/auth/review/:isbn.               *)
(***************************************************************************)
DeleteReview(s, isbn, bodyUser) ==
    LET a == auth(s)
        req == [NoReq EXCEPT !.op = "delete", !.sess = s, !.isbn = isbn,
                   !.bodyUser = bodyUser]
    IN
    /\ Step
    /\ IF ~a.next
       THEN /\ UNCHANGED <<books, reviewLog>>
            /\ last' = [req EXCEPT !.status = a.status, !.msg = a.msg]
       ELSE IF ~HasBook(isbn)
            THEN /\ UNCHANGED <<books, reviewLog>>
                 /\ last' = [req EXCEPT !.status = 404, !.msg = "Book not found",
                                !.ran = TRUE]
            ELSE LET username == ReviewUsername(s, bodyUser) IN
                 IF ~Truthy(username)
                 THEN /\ UNCHANGED <<books, reviewLog>>
                      /\ last' = [req EXCEPT !.status = 401,
                                     !.msg = "User not logged in",
                                     !.actor = username, !.ran = TRUE]
                 ELSE IF Truthy(ReviewOf(isbn, username))
                      THEN /\ books' = [books EXCEPT ![isbn].reviews =
                                           RemoveReview(@, username)]
                           /\ reviewLog' = Logged(isbn, username, "delete", "")
                           /\ last' = [req EXCEPT !.status = 200,
                                          !.msg = "Review deleted successfully",
                                          !.actor = username, !.ran = TRUE,
                                          !.had = TRUE]
                      ELSE /\ UNCHANGED <<books, reviewLog>>
                           /\ last' = [req EXCEPT !.status = 404,
                                          !.msg = "Review not found for this user",
                                          !.actor = username, !.ran = TRUE,
                                          !.had = \E e \in books[isbn].reviews :
                                                      e.username = username]
    /\ UNCHANGED <<users, registered, loggedIn, session, now, envSecret>>

(***************************************************************************)
(* router/general.js: the public queries.  Each handler is one step, taken *)
(* when its timer or its HTTP call completes: before that it has read only *)
(* req.params.  The routes are mounted on "/", outside the /customer       *)
(* session middleware and the auth middleware.                             *)
(***************************************************************************)
AuthorInputs == {"Chinua Achebe", "chinua achebe", "Jane Austen"}
TitleInputs == {"Things Fall Apart", "things fall apart"}

\* Object.keys of the catalog: integer-like keys in ascending order.
CatalogOrder == <<"1", "2">>

\* Object.values(bs)
Values(bs) == [k \in 1..Len(CatalogOrder) |-> bs[CatalogOrder[k]]]

\* JSON.stringify(books): each key with its book.
CatalogJson == {<<i, books[i]>> : i \in DOMAIN books}

\* GET /
GetBooks ==
    /\ Step
    /\ last' = [NoReq EXCEPT !.op = "list", !.status = 200,
                   !.catalog = CatalogJson]
    /\ UNCHANGED <<users, registered, reviewLog, loggedIn, books, session, now, envSecret>>

\* Mutant of GetIsbn: every existing key is answered with the first book.
GetIsbnFirstBook(isbn) ==
    /\ Step
    /\ IF HasBook(isbn)
       THEN last' = [NoReq EXCEPT !.op = "isbn", !.status = 200, !.isbn = isbn,
                        !.bookList = <<books[CatalogOrder[1]]>>]
       ELSE last' = [NoReq EXCEPT !.op = "isbn", !.status = 404, !.isbn = isbn,
                        !.msg = "Book not found"]
    /\ UNCHANGED <<users, registered, reviewLog, loggedIn, books, session, now, envSecret>>

\* GET /isbn/:isbn; bookList holds the one book of the body.
GetIsbn(isbn) ==
    /\ Step
    /\ IF HasBook(isbn)
       THEN last' = [NoReq EXCEPT !.op = "isbn", !.status = 200, !.isbn = isbn,
                        !.bookList = <<books[isbn]>>]
       ELSE last' = [NoReq EXCEPT !.op = "isbn", !.status = 404, !.isbn = isbn,
                        !.msg = "Book not found"]
    /\ UNCHANGED <<users, registered, reviewLog, loggedIn, books, session, now, envSecret>>

\* What axios.get('http://localhost:3000/books') yields.  The application
\* listens on port 5000 and has no /books route, so the answer is that of
\* whatever else runs on port 3000: nothing (the call rejects), or a service
\* that serves the seeded catalog.
RemoteOutcomes == {"ECONNREFUSED", "catalog"}

\* GET /author/:author
GetAuthor(author, remote) ==
    /\ Step
    /\ IF remote = "ECONNREFUSED"
       THEN last' = [NoReq EXCEPT !.op = "author", !.status = 404,
                        !.query = author, !.remote = remote,
                        !.msg = "connect ECONNREFUSED"]
       ELSE LET booksData == SeedBooks
                bookList == SelectSeq(Values(booksData),
                                      LAMBDA book : book.author = author)
            IN IF Len(bookList) > 0
               THEN last' = [NoReq EXCEPT !.op = "author", !.status = 200,
                                !.query = author, !.remote = remote,
                                !.bookList = bookList]
               ELSE last' = [NoReq EXCEPT !.op = "author", !.status = 404,
                                !.query = author, !.remote = remote,
                                !.msg = "Book not found"]
    /\ UNCHANGED <<users, registered, reviewLog, loggedIn, books, session, now, envSecret>>

\* GET /title/:title
GetTitle(title) ==
    /\ Step
    /\ LET bookList == SelectSeq(Values(books), LAMBDA book : book.title = title)
       IN IF Len(bookList) > 0
          THEN last' = [NoReq EXCEPT !.op = "title", !.status = 200,
                           !.query = title, !.bookList = bookList]
          ELSE last' = [NoReq EXCEPT !.op = "title", !.status = 404,
                           !.query = title, !.msg = "Book not found"]
    /\ UNCHANGED <<users, registered, reviewLog, loggedIn, books, session, now, envSecret>>

\* Mutant of ReviewsArray: entries whose review is falsy are left out.
ReviewsArrayTruthyOnly(reviews) ==
    {[username |-> e.username, review |-> e.review] :
        e \in {x \in reviews : Truthy(x.review)}}

\* Object.entries(book.reviews).map(([username, review]) => ({username,
\* review})): one object per key.  A review of Undefined stands for the
\* object JSON.stringify writes without a review field.
ReviewsArray(reviews) ==
    {[username |-> e.username, review |-> e.review] : e \in reviews}

\* Mutant of GetReview: the reviews that were read are cleared.
GetReviewConsumes(isbn) ==
    /\ Step
    /\ IF HasBook(isbn)
       THEN /\ last' = [NoReq EXCEPT !.op = "reviews", !.status = 200,
                           !.isbn = isbn,
                           !.reviewList = ReviewsArray(books[isbn].reviews)]
            /\ books' = [books EXCEPT ![isbn].reviews = {}]
       ELSE /\ last' = [NoReq EXCEPT !.op = "reviews", !.status = 404,
                           !.isbn = isbn, !.msg = "Book not found"]
            /\ UNCHANGED books
    /\ UNCHANGED <<users, registered, reviewLog, loggedIn, session, now, envSecret>>

\* GET /review/:isbn
GetReview(isbn) ==
    /\ Step
    /\ IF HasBook(isbn)
       THEN /\ last' = [NoReq EXCEPT !.op = "reviews", !.status = 200,
                           !.isbn = isbn,
                           !.reviewList = ReviewsArray(books[isbn].reviews)]
            /\ UNCHANGED books
       ELSE /\ last' = [NoReq EXCEPT !.op = "reviews", !.status = 404,
                           !.isbn = isbn, !.msg = "Book not found"]
            /\ UNCHANGED books
    /\ UNCHANGED <<users, registered, reviewLog, loggedIn, session, now, envSecret>>

(***************************************************************************)
(* Time passes.                                                            *)
(***************************************************************************)
TickSteps == {1, ExpiresIn - 1, ExpiresIn + 1}

Tick(d) ==
    /\ Step
    /\ now' = now + d
    /\ last' = [NoReq EXCEPT !.op = "tick"]
    /\ UNCHANGED <<users, registered, reviewLog, loggedIn, books, session, envSecret>>

\* The requests of the clients holding the session keys S.
NextOver(S) ==
    \/ \E u \in UserInputs, p \in PassInputs : Register(u, p)
    \/ \E u \in UserInputs, p \in PassInputs : RegisterIndex(u, p)
    \/ \E s \in S, u \in UserInputs, p \in PassInputs : Login(s, u, p)
    \/ \E s \in S, i \in IsbnInputs, r \in ReviewInputs, bu \in UserInputs :
           PutReview(s, i, r, bu)
    \/ \E s \in S, i \in IsbnInputs, bu \in UserInputs : DeleteReview(s, i, bu)
    \/ GetBooks
    \/ \E i \in IsbnInputs : GetIsbn(i)
    \/ \E a \in AuthorInputs, r \in RemoteOutcomes : GetAuthor(a, r)
    \/ \E ti \in TitleInputs : GetTitle(ti)
    \/ \E i \in IsbnInputs : GetReview(i)
    \/ \E d \in TickSteps : Tick(d)

\* The requests of one client, which keeps the session key "s1" throughout;
\* the session store holds every key of Sessions.
Next == NextOver({"s1"})

Spec == Init /\ [][Next]_vars

\* The requests of two clients, one per session key.
NextTwoSessions == NextOver(Sessions)

SpecTwoSessions == Init /\ [][NextTwoSessions]_vars

\* The state after POST /register has accepted alice and then bob; the
\* requests that follow are counted from there.
InitTwoUsers ==
    /\ users = <<[username |-> "alice", password |-> "pw1"],
                 [username |-> "bob", password |-> "pw2"]>>
    /\ books = SeedBooks
    /\ session = [s \in Sessions |-> <<>>]
    /\ now = 0
    /\ steps = 0
    /\ envSecret \in EnvSecrets
    /\ registered = {<<"alice", "pw1">>, <<"bob", "pw2">>}
    /\ reviewLog = {}
    /\ loggedIn = {}
    /\ last = [NoReq EXCEPT !.op = "register", !.status = 200,
                  !.msg = "User successfully registered",
                  !.user = "bob", !.pass = "pw2"]

SpecTwoUsers == InitTwoUsers /\ [][Next]_vars

(***************************************************************************)
(* Properties.                                                             *)
(***************************************************************************)

\* The username bound to the session of the last request.
SessionUser == session[last.sess][1].username

\* The entries book isbn holds for username u.
EntriesOf(isbn, u) == {e \in books[isbn].reviews : e.username = u}

\* C1: every book holds at most one review per username, and after a PUT of
\* text r by u on an existing book, also one that follows an earlier PUT by u,
\* the book holds exactly one review for u, with text r.
C1_OneReviewPerUser ==
    /\ \A i \in DOMAIN books : \A e1, e2 \in books[i].reviews :
           e1.username = e2.username => e1 = e2
    /\ (last.op = "put" /\ last.ran /\ HasBook(last.isbn)) =>
           EntriesOf(last.isbn, SessionUser) =
               {[username |-> SessionUser, review |-> last.review]}

\* PUT "b" by a user whose review on the book was "a".
C1_Witness ==
    /\ last.op = "put" /\ last.status = 200 /\ HasBook(last.isbn)
    /\ last.had /\ last.old = "a" /\ last.review = "b"

\* C2: the user directory never holds two accounts with the same username,
\* whichever registration route the requests came through.
C2_UniqueUsernames ==
    \A i, j \in 1..Len(users) : users[i].username = users[j].username => i = j

\* POST /register/:username/:password for a username that POST /register
\* created, with another password.
C2_Witness ==
    /\ last.op = "registerIndex" /\ Truthy(last.user) /\ Truthy(last.pass)
    /\ \E i \in 1..Len(users) :
           users[i].username = last.user /\ users[i].password # last.pass
    /\ \E q \in registered : q[1] = last.user

\* An account with username u is in the directory.
HasAccount(u) == \E i \in 1..Len(users) : users[i].username = u

\* The last request was a registration, through either route.
IsRegister(r) == r.op \in {"register", "registerIndex"}

\* C3: a registration with non-empty username and password answers 200 when
\* no account has the username and 400 (AlreadyExists) when one has, whatever
\* the password.
C3_RegisterContract ==
    [][(IsRegister(last') /\ Truthy(last'.user) /\ Truthy(last'.pass)) =>
          IF HasAccount(last'.user)
          THEN last'.status = 400 /\ users' = users
          ELSE /\ last'.status = 200
               /\ \E i \in 1..Len(users') : users'[i].username = last'.user]_vars

\* C4: a registration that fails, for a missing field or for a username that
\* exists, leaves the user directory as it was.
C4_FailedRegisterNoEffect ==
    [][(IsRegister(last') /\ last'.status # 200) => users' = users]_vars

\* POST /register refused for a username that exists.
C4_Witness ==
    /\ last.op = "register" /\ last.status = 400
    /\ last.msg = "User already exists!"
    /\ HasAccount(last.user)

\* C5: a login with non-empty username and password answers 200 exactly when
\* a registration of that very pair succeeded before, and 401 otherwise; the
\* token of a successful login carries the username.
C5_LoginIffRegistered ==
    (last.op = "login" /\ Truthy(last.user) /\ Truthy(last.pass)) =>
        /\ last.status = 200 <=> <<last.user, last.pass>> \in registered
        /\ last.status # 200 => last.status = 401
        /\ last.status = 200 =>
               /\ session[last.sess] # <<>>
               /\ session[last.sess][1].accessToken.username = last.user

\* A login refused on a session that an earlier login of the same account
\* authorized: the username is registered, the password is another account's.
C5_Witness ==
    /\ last.op = "login" /\ last.status = 401
    /\ \E q \in registered : q[1] = last.user /\ q[2] # last.pass
    /\ \E q \in registered : q[1] # last.user /\ q[2] = last.pass
    /\ session[last.sess] # <<>>
    /\ session[last.sess][1].accessToken.username = last.user

\* C6: a login that fails (400 or 401) leaves every session as it was.
C6_FailedLoginKeepsSession ==
    [][(last'.op = "login" /\ last'.status # 200) => session' = session]_vars

\* A login refused with 401 on a session that holds an authorization.
C6_Witness ==
    /\ last.op = "login" /\ last.status = 401
    /\ session[last.sess] # <<>>

\* The last request went to a review route behind the middleware.
IsReview(r) == r.op \in {"put", "delete"}

\* The token a session holds.
TokenOf(s) == session[s][1].accessToken

\* The token's signature does not verify under the secret authorize uses.
BadSignature(tok) == tok.key # VerifySecret

\* The current time is at or past the token's expiry.
Expired(tok) == now >= tok.exp

\* C7: a review request on a session with no authorization entry, or whose
\* token has a bad signature or has expired, is answered 403, the review
\* handler does not run and the catalog is unchanged.
C7_RejectedUnauthorized ==
    [][(/\ IsReview(last')
        /\ \/ session[last'.sess] = <<>>
           \/ BadSignature(TokenOf(last'.sess))
           \/ Expired(TokenOf(last'.sess)))
       => (last'.status = 403 /\ ~last'.ran /\ books' = books)]_vars

\* A PUT refused because the session's well-signed token has expired.
C7_Witness ==
    /\ last.op = "put" /\ last.status = 403
    /\ last.msg = "User not authenticated"
    /\ session[last.sess] # <<>>
    /\ ~BadSignature(TokenOf(last.sess))
    /\ Expired(TokenOf(last.sess))
    /\ HasBook(last.isbn)

\* C8: whatever the configured secret, the token a login stored in a session
\* is accepted by authorize on that session at every time before its expiry.
C8_SameSecret ==
    (IsReview(last) /\ session[last.sess] # <<>> /\ ~Expired(TokenOf(last.sess)))
        => (last.status # 403 /\ last.ran)

\* C9: a token minted at t0 is accepted by authorize at every t < t0 + 3600
\* and refused at every t >= t0 + 3600.
C9_ExpiryWindow ==
    (IsReview(last) /\ session[last.sess] # <<>>) =>
        IF now < TokenOf(last.sess).iat + 3600
        THEN last.status # 403 /\ last.ran
        ELSE last.status = 403 /\ ~last.ran

\* The review entries in which two catalogs differ.
ChangedEntries(b1, b2) ==
    UNION {(b1[i].reviews \ b2[i].reviews) \cup (b2[i].reviews \ b1[i].reviews) :
              i \in DOMAIN b1}

\* C10: the review handlers read and write book.reviews under the username
\* the last successful login bound to the session, whatever the request body
\* says.
C10_SessionUsernameOnly ==
    [][(IsReview(last') /\ last'.ran) =>
          /\ last'.actor # "" => last'.actor = session[last'.sess][1].username
          /\ \A e \in ChangedEntries(books, books') :
                 e.username = session[last'.sess][1].username]_vars

\* A PUT whose body names another user wrote the review of the session's user
\* and nothing under the name in the body.
C10_Witness ==
    /\ last.op = "put" /\ last.status = 200 /\ HasBook(last.isbn)
    /\ Truthy(last.bodyUser) /\ last.bodyUser # SessionUser
    /\ EntriesOf(last.isbn, SessionUser) =
           {[username |-> SessionUser, review |-> last.review]}
    /\ EntriesOf(last.isbn, last.bodyUser) = {}
    /\ ~last.had

\* C11: an authorized PUT on an id that is no book answers 404 and changes no
\* review; on a book it answers 200 and sets the review of the session's user
\* to the given text.
C11_PutNotFound ==
    [][(last'.op = "put" /\ last'.ran) =>
          IF HasBook(last'.isbn)
          THEN /\ last'.status = 200
               /\ [username |-> session[last'.sess][1].username,
                   review |-> last'.review] \in books'[last'.isbn].reviews
          ELSE last'.status = 404 /\ books' = books]_vars

\* C12: an authorized DELETE by u answers 404 when the id is no book, 404 when
\* the book holds no review entry for u, and otherwise 200 with u's entry
\* removed; a DELETE that fails changes no review.
C12_DeleteContract ==
    [][(last'.op = "delete" /\ last'.ran) =>
          IF ~HasBook(last'.isbn)
          THEN last'.status = 404 /\ books' = books
          ELSE IF EntriesOf(last'.isbn, session[last'.sess][1].username) = {}
               THEN last'.status = 404 /\ books' = books
               ELSE /\ last'.status = 200
                    /\ \A e \in books'[last'.isbn].reviews :
                           e.username # session[last'.sess][1].username]_vars

\* C13: after a PUT by u on a book, whatever text the PUT accepted (an empty
\* or omitted one too), a DELETE by u on that book answers 200 and leaves no
\* entry for u, and a second DELETE answers 404.
C13_PutDeleteDelete ==
    [][/\ (/\ last.op = "put" /\ last.ran /\ HasBook(last.isbn)
           /\ last'.op = "delete" /\ last'.sess = last.sess
           /\ last'.isbn = last.isbn)
          => /\ last'.status = 200
             /\ \A e \in books'[last.isbn].reviews : e.username # last.actor
       /\ (/\ last.op = "delete" /\ last.status = 200
           /\ last'.op = "delete" /\ last'.sess = last.sess
           /\ last'.isbn = last.isbn)
          => /\ last'.status = 404
             /\ last'.msg = "Review not found for this user"]_vars

\* C20: a DELETE on an existing book from a session that binds no username is
\* answered 401.
C20_DeleteNoIdentity ==
    (/\ last.op = "delete" /\ HasBook(last.isbn)
     /\ \/ session[last.sess] = <<>>
        \/ ~Truthy(session[last.sess][1].username))
        => last.status = 401

\* C15: a successful login on a session that holds an authorization replaces
\* it: the session then holds one entry, with the new token and the new
\* username, and a review request that follows on the session acts as the
\* user who logged in.
C15_ReloginReplaces ==
    [][/\ (last'.op = "login" /\ last'.status = 200) =>
              /\ Len(session'[last'.sess]) = 1
              /\ session'[last'.sess][1].username = last'.user
              /\ session'[last'.sess][1].accessToken.username = last'.user
              /\ session'[last'.sess][1].accessToken.iat = now
       /\ (/\ last.op = "login" /\ last.status = 200
           /\ IsReview(last') /\ last'.sess = last.sess /\ last'.ran) =>
              /\ last'.actor # "" => last'.actor = last.user
              /\ \A e \in ChangedEntries(books, books') :
                     e.username = last.user]_vars

\* A login as one user on a session that was authorized as another.
C15_Witness ==
    /\ last.op = "login" /\ last.status = 200
    /\ last.had /\ last.old # last.user
    /\ Len(session[last.sess]) = 1
    /\ session[last.sess][1].username = last.user


\* C14: a PUT or DELETE that reaches its handler changes, in the whole
\* catalog, at most the entry of the session's user on the requested book:
\* the entries of other users on that book, every other book, and the author
\* and title of every book stay as they were.
C14_OnlyOwnEntry ==
    [][(IsReview(last') /\ last'.ran) =>
          /\ DOMAIN books' = DOMAIN books
          /\ \A i \in DOMAIN books :
                /\ books'[i].author = books[i].author
                /\ books'[i].title = books[i].title
                /\ i # last'.isbn => books'[i].reviews = books[i].reviews
                /\ \A e \in books[i].reviews \cup books'[i].reviews :
                       e.username # session[last'.sess][1].username
                           => (e \in books[i].reviews <=> e \in books'[i].reviews)]_vars

\* The session's user has just written or removed their own review on a book
\* that holds another user's review, and the other book holds a review too.
C14_Witness ==
    /\ IsReview(last) /\ last.status = 200 /\ HasBook(last.isbn)
    /\ \E e \in books[last.isbn].reviews : e.username # last.actor
    /\ \E i \in DOMAIN books : i # last.isbn /\ books[i].reviews # {}

\* The public queries.
IsQuery(r) == r.op \in {"list", "isbn", "author", "title", "reviews"}

\* C16: list all, get by key, find by author, find by title and get reviews
\* leave the catalog, the user directory and every session as they were.
C16_QueriesReadOnly ==
    [][IsQuery(last') =>
          books' = books /\ users' = users /\ session' = session]_vars

\* The reviews of a book were read while the catalog holds a review, the
\* directory an account and the session an authorization.
C16_Witness ==
    /\ last.op = "reviews" /\ last.status = 200
    /\ last.reviewList # {}
    /\ books[last.isbn].reviews # {}
    /\ users # <<>>
    /\ session["s1"] # <<>>

\* The books of the catalog whose author, or title, is exactly q, in the
\* order the catalog iterates.
ByAuthor(q) == SelectSeq(Values(books), LAMBDA book : book.author = q)
ByTitle(q) == SelectSeq(Values(books), LAMBDA book : book.title = q)

\* C17: find by author answers 200 with exactly the catalog books of that
\* author, in catalog order, and 404 exactly when there is none; find by
\* title likewise.
C17_FindByAuthorTitle ==
    /\ last.op = "author" =>
          IF Len(ByAuthor(last.query)) > 0
          THEN last.status = 200 /\ last.bookList = ByAuthor(last.query)
          ELSE last.status = 404
    /\ last.op = "title" =>
          IF Len(ByTitle(last.query)) > 0
          THEN last.status = 200 /\ last.bookList = ByTitle(last.query)
          ELSE last.status = 404

\* The last review request of u on book isbn that succeeded, if any.
LogOf(isbn, u) == {l \in reviewLog : l.isbn = isbn /\ l.username = u}

Authorized(s) == session[s] # <<>> /\ JwtVerify(TokenOf(s), VerifySecret)

\* C21: a review handler runs only in a request whose authorize succeeded,
\* and only such a request changes the catalog: a request on a session with
\* no entry, or with an expired or badly signed token, changes nothing.
C21_HandlerAfterAuthorize ==
    [][/\ IsReview(last') => (last'.ran <=> Authorized(last'.sess))
       /\ (books' # books \/ reviewLog' # reviewLog) =>
              /\ IsReview(last') /\ last'.ran
              /\ Authorized(last'.sess)]_vars

\* A DELETE removed a review on a session whose token authorize accepts.
C21_Witness ==
    /\ last.op = "delete" /\ last.status = 200 /\ last.ran
    /\ Authorized(last.sess)
    /\ \E l \in reviewLog : l.op = "delete" /\ l.isbn = last.isbn


\* The states of a session key.
Anonymous(s) == session[s] = <<>>
Authenticated(s) == session[s] # <<>> /\ ~Expired(TokenOf(s))
ExpiredSession(s) == session[s] # <<>> /\ Expired(TokenOf(s))

\* C22: a session's entry is written only by a successful login on that
\* session, which leaves it Authenticated; an entry is never removed; an
\* Authenticated session stops being so only by time reaching the token's
\* expiry; an Expired session stays Expired, and every review request on it
\* is refused, until a successful login on it.
C22_SessionTransitions ==
    [][\A s \in Sessions :
          /\ session'[s] # session[s] =>
                 /\ last'.op = "login" /\ last'.status = 200 /\ last'.sess = s
                 /\ Authenticated(s)'
          /\ ~Anonymous(s) => ~Anonymous(s)'
          /\ (Authenticated(s) /\ ~Authenticated(s)') =>
                 last'.op = "tick" /\ ExpiredSession(s)'
          /\ (ExpiredSession(s) /\ ~ExpiredSession(s)') =>
                 last'.op = "login" /\ last'.status = 200 /\ last'.sess = s
          /\ (ExpiredSession(s) /\ IsReview(last') /\ last'.sess = s) =>
                 last'.status = 403 /\ books' = books]_vars

\* A DELETE refused on a session whose token has expired, by a user who had
\* logged in.
C22_Witness ==
    /\ last.op = "delete" /\ last.status = 403
    /\ ExpiredSession(last.sess)
    /\ \E q \in loggedIn : q[1] = session[last.sess][1].username


SeededShape(b) ==
    /\ DOMAIN b = DOMAIN SeedBooks
    /\ \A i \in DOMAIN SeedBooks :
           /\ b[i].author = SeedBooks[i].author
           /\ b[i].title = SeedBooks[i].title

\* C24: in every state the catalog has the seeded keys and every book its
\* seeded author and title; a step that changes the catalog is a review
\* request that ran, and it changes the reviews of one book only.
C24_CatalogFixed ==
    /\ SeededShape(books)
    /\ [][/\ SeededShape(books')
          /\ books' # books =>
                 /\ IsReview(last') /\ last'.ran /\ last'.status = 200
                 /\ \A i \in DOMAIN books :
                        i # last'.isbn => books'[i] = books[i]]_vars

\* A review is in the catalog, and the review request that ran last named an
\* id that is no book.
C24_Witness ==
    /\ IsReview(last) /\ last.ran /\ ~HasBook(last.isbn)
    /\ \E i \in DOMAIN books : books[i].reviews # {}
    /\ \E l \in reviewLog : l.op = "put"


\* C25: every account of the directory is, unchanged, in the directory of the
\* next state, and a login with credentials that a login accepted before is
\* accepted again.
C25_AccountsPersist ==
    [][/\ Len(users') >= Len(users)
       /\ \A i \in 1..Len(users) : users'[i] = users[i]
       /\ loggedIn \subseteq loggedIn'
       /\ (last'.op = "login" /\ <<last'.user, last'.pass>> \in loggedIn) =>
              last'.status = 200]_vars

\* A user whose token has expired, and after whom another account was
\* registered, logs in again with the same credentials.
C25_Witness ==
    /\ last.op = "login" /\ last.status = 200
    /\ last.had /\ last.old = last.user
    /\ now > ExpiresIn
    /\ Len(users) >= 2 /\ users[1].username = last.user


\* C26: a session that holds an authorization entry holds a non-empty
\* username, the token of the entry carries the same username, and the
\* directory has an account of that name.
C26_EntryWellFormed ==
    \A s \in Sessions :
        session[s] # <<>> =>
            /\ Truthy(session[s][1].username)
            /\ session[s][1].accessToken.username = session[s][1].username
            /\ HasAccount(session[s][1].username)

\* The session was last bound to the second account of the directory, and
\* time has passed since.
C26_Witness ==
    /\ last.op = "tick"
    /\ Len(users) = 2
    /\ session["s1"] # <<>>
    /\ session["s1"][1].username = users[2].username
    /\ TokenOf("s1").username = users[2].username
    /\ TokenOf("s1").iat < now

\* C27: when a review handler has run, the session of the request holds an
\* entry with a non-empty username; no review request is answered 401.
C27_HandlerHasUsername ==
    IsReview(last) =>
        /\ last.status # 401
        /\ last.ran =>
               /\ session[last.sess] # <<>>
               /\ Truthy(session[last.sess][1].username)
               /\ (last.op = "put" \/ HasBook(last.isbn)) =>
                      last.actor = session[last.sess][1].username

\* A DELETE on a book passed the handler's username test and went on to look
\* for the user's review, which the book does not hold.
C27_Witness ==
    /\ last.op = "delete" /\ last.ran /\ HasBook(last.isbn)
    /\ last.status = 404 /\ last.msg = "Review not found for this user"
    /\ ~last.had
    /\ Truthy(last.actor)

\* C28: every key of every book's reviews is the username of an account of
\* the directory, and of credentials that a login accepted.
C28_ReviewersAreUsers ==
    \A i \in DOMAIN books : \A e \in books[i].reviews :
        /\ HasAccount(e.username)
        /\ \E q \in loggedIn : q[1] = e.username

\* A book holds the review of a user after the session was bound to another.
C28_Witness ==
    /\ session["s1"] # <<>>
    /\ \E i \in DOMAIN books : \E e \in books[i].reviews :
           /\ e.username # session["s1"][1].username
           /\ HasAccount(e.username)
    /\ Cardinality({q[1] : q \in loggedIn}) = 2


\* C29: a request changes no session but its own, and so leaves unchanged
\* whether authorize accepts any other session; the passing of time changes
\* no entry, and ends a session's authorization only when it reaches the
\* expiry of that session's own token; a review handler acts under the
\* username of its own session.
C29_SessionsIndependent ==
    [][/\ last'.op # "tick" =>
              \A k \in Sessions : k # last'.sess =>
                  /\ session'[k] = session[k]
                  /\ Authorized(k)' <=> Authorized(k)
       /\ last'.op = "tick" =>
              \A k \in Sessions :
                  /\ session'[k] = session[k]
                  /\ (Authorized(k) /\ ~Authorized(k)') =>
                         now' >= TokenOf(k).exp
       /\ (IsReview(last') /\ last'.ran /\ last'.actor # "") =>
              last'.actor = session[last'.sess][1].username]_vars

\* One session is bound to a user and the other to another user; a PUT on
\* the first wrote under the first user's name.
C29_Witness ==
    /\ last.op = "put" /\ last.status = 200 /\ HasBook(last.isbn)
    /\ \E k \in Sessions :
           /\ k # last.sess
           /\ session[k] # <<>>
           /\ session[k][1].username # last.actor
    /\ last.actor = session[last.sess][1].username

=============================================================================
